---- MODULE Spec2Model ----
(***************************************************************************)
(* StreamScouter: a catalog of titles is loaded and embedded once at       *)
(* import time (api/util.py), and GET /getRecommendations (api/main.py)    *)
(* ranks the catalog against a query by cosine similarity.                 *)
(*                                                                         *)
(* Representation.  Similarities are fixed-point integers: the integer s   *)
(* stands for s / SimScale.  Positions are 1-based (python position p is   *)
(* p + 1 here).  Embeddings are two-dimensional integer vectors.           *)
(***************************************************************************)
EXTENDS Integers, Sequences, FiniteSets, TLC

\* ------------------------------------------------------------------ bounds
MaxRows == 3
MaxRequests == 2
MaxTopN == 4
SimScale == 10000

\* --------------------------------------------------------------- constants
\* top_n=3 in the handler, top_n=5 the default of recommend_movie
HandlerTopN == 3

\* pandas' missing value
NaN == "<NaN>"

\* Rows a netflix_titles.csv may hold.  An empty description field is what
\* read_csv turns into NaN.  Rows 1 and 4 share a description, so that they
\* score equally against every query.
CsvPool ==
  << [show_id |-> "s1", title |-> "A", description |-> "space opera with robots",
      listed_in |-> "Sci-Fi", release_year |-> 2019],
     [show_id |-> "s2", title |-> "C", description |-> "",
      listed_in |-> "Dramas", release_year |-> 2018],
     [show_id |-> "s3", title |-> "B", description |-> "romantic comedy",
      listed_in |-> "Comedies", release_year |-> 2020],
     [show_id |-> "s4", title |-> "D", description |-> "space opera with robots",
      listed_in |-> "Sci-Fi", release_year |-> 2021],
     [show_id |-> "s5", title |-> "E", description |-> "a detective story",
      listed_in |-> "Crime", release_year |-> 2017] >>

\* The queries requests are made with.
Queries == {"robots in space", "romantic comedy"}

\* The files: the rows of CsvPool at an increasing choice of at most MaxRows
\* positions.
RECURSIVE PickRows(_, _)
PickRows(S, from) ==
  IF from > Len(CsvPool) THEN << >>
  ELSE IF from \in S THEN << CsvPool[from] >> \o PickRows(S, from + 1)
  ELSE PickRows(S, from + 1)

CsvFiles ==
  { PickRows(S, 1) : S \in { T \in SUBSET (1 .. Len(CsvPool)) : Cardinality(T) <= MaxRows } }

\* ----------------------------------------------------------------- helpers
Min(a, b) == IF a < b THEN a ELSE b

Abs(a) == IF a < 0 THEN -a ELSE a

\* ------------------------------------------------------- the embedding model
\* model.encode: a fixed, deterministic map from text to vector.
encode(text) ==
  CASE text = "space opera with robots" -> << 3, 4 >>
    [] text = "robots in space"         -> << 4, 3 >>
    [] text = "romantic comedy"         -> << -4, 3 >>
    [] text = "a detective story"       -> << 0, -5 >>
    [] OTHER                            -> << 5, 0 >>

Dot(a, b) == a[1] * b[1] + a[2] * b[2]

\* the euclidean norm, rounded down
Norm(a) == CHOOSE n \in 0 .. Dot(a, a) : n * n <= Dot(a, a) /\ (n + 1) * (n + 1) > Dot(a, a)

\* util.cos_sim for one pair: both vectors normalised (a zero vector stays
\* zero), then the dot product.
cos_sim_pair(a, b) ==
  IF Norm(a) = 0 \/ Norm(b) = 0 THEN 0
  ELSE (Dot(a, b) * SimScale) \div (Norm(a) * Norm(b))

\* util.cos_sim(query_embedding, desc_embeddings)[0]
cos_sim(query_embedding, embeddings) ==
  [i \in 1 .. Len(embeddings) |-> cos_sim_pair(query_embedding, embeddings[i])]

\* --------------------------------------------------------------- index build
\* pd.read_csv: an empty field is read as NaN.
read_csv(file) ==
  [i \in 1 .. Len(file) |->
     [file[i] EXCEPT !.description = IF @ = "" THEN NaN ELSE @]]

\* A dropna that keeps every row.
dropna_keeps_all(frame) == frame

\* df.dropna(subset=['description']).reset_index(drop=True): the rows with a
\* description, in order, renumbered by position.
dropna(frame) == SelectSeq(frame, LAMBDA row : row.description # NaN)

\* df['description'].tolist()
descriptions_of(frame) == [i \in 1 .. Len(frame) |-> frame[i].description]

\* model.encode(descriptions, convert_to_tensor=True)
encode_all(texts) == [i \in 1 .. Len(texts) |-> encode(texts[i])]

\* ------------------------------------------------------------------ ranking
\* -cosine_scores_cpu
neg_ascending(a) == a

neg(a) == [i \in 1 .. Len(a) |-> -a[i]]

\* The position, in the tie order `tie`, of index i.
TiePos(tie, i) == CHOOSE k \in DOMAIN tie : tie[k] = i

\* The indices of `a` in ascending order of value, equal values in ascending
\* order of `rank`.
SortedIdx(a, rank) ==
  LET n == Len(a)
      Before(i, j) == a[i] < a[j] \/ (a[i] = a[j] /\ rank[i] < rank[j])
      PlaceOf(i) == Cardinality({ j \in 1 .. n : Before(j, i) }) + 1
  IN  [k \in 1 .. n |-> CHOOSE i \in 1 .. n : PlaceOf(i) = k]

\* An argpartition that leaves the array as it is.
argpartition_unsorted(a, kth, tie) ==
  IF \E k \in kth : k >= Len(a) THEN [error |-> "ValueError", idx |-> << >>]
  ELSE [error |-> "", idx |-> [i \in 1 .. Len(a) |-> i]]

\* An argpartition that places equal values in index order.
argpartition_stable(a, kth, tie) ==
  IF \E k \in kth : k >= Len(a) THEN [error |-> "ValueError", idx |-> << >>]
  ELSE [error |-> "", idx |-> SortedIdx(a, [i \in 1 .. Len(a) |-> i])]

\* np.argpartition(a, kth): every position of kth (0-based) must be inside the
\* array, else ValueError.  Each position of kth holds the element a full sort
\* puts there; kth = range(top_n) fixes the first top_n positions, and those
\* are all the caller keeps.  numpy leaves the order of equal values
\* unspecified: `tie` is the order this build gives them.
argpartition(a, kth, tie) ==
  IF \E k \in kth : k >= Len(a) THEN [error |-> "ValueError", idx |-> << >>]
  ELSE [error |-> "", idx |-> SortedIdx(a, [i \in 1 .. Len(a) |-> TiePos(tie, i)])]

\* np.argsort(a), whose default sort is not stable: `rank` orders equal values.
argsort(a, rank) == SortedIdx(a, rank)

\* df.iloc[...][['title', 'description', 'listed_in', 'release_year']]
select_columns(row) ==
  [title |-> row.title, description |-> row.description,
   listed_in |-> row.listed_in, release_year |-> row.release_year]

\* Scores attached by result position instead of by catalog index.
match_percentage_by_position(scores, top_indices) ==
  [k \in 1 .. Len(top_indices) |-> scores[k] * 100]

\* cosine_scores_cpu[top_indices] * 100
match_percentage_of(scores, top_indices) ==
  [k \in 1 .. Len(top_indices) |-> scores[top_indices[k]] * 100]

\* recommend_movie(query, model, desc_embeddings, df, top_n).  The result is
\* the new frame: `index` its row labels (the catalog positions), `rows` its
\* rows; or the exception raised.
recommend_movie(query, embeddings, frame, top_n, tie) ==
  LET query_embedding == encode(query)
      cosine_scores == cos_sim(query_embedding, embeddings)
      part == argpartition(neg(cosine_scores), 0 .. (top_n - 1), tie)
  IN  IF part.error # "" THEN [error |-> part.error, index |-> << >>, rows |-> << >>]
      ELSE
        LET top0 == SubSeq(part.idx, 1, top_n)
            keys == [k \in 1 .. top_n |-> neg(cosine_scores)[top0[k]]]
            order == argsort(keys, [k \in 1 .. top_n |-> TiePos(tie, top0[k])])
            top_indices == [k \in 1 .. top_n |-> top0[order[k]]]
            pct == match_percentage_of(cosine_scores, top_indices)
        IN  [error |-> "",
             index |-> top_indices,
             rows  |-> [k \in 1 .. top_n |->
                          select_columns(frame[top_indices[k]])
                            @@ ("match_percentage" :> pct[k])]]

\* The catalog frame once recommend_movie has also written the score column
\* into it.
df_with_score_column(frame, recommended) ==
  [i \in 1 .. Len(frame) |->
     IF \E k \in 1 .. Len(recommended.index) : recommended.index[k] = i
     THEN frame[i] @@ ("match_percentage" :> 0)
     ELSE frame[i]]

\* The catalog frame once recommend_movie has also moved the recommended rows
\* to its front.
df_sorted_in_place(frame, recommended) ==
  LET n == Len(recommended.index)
      rest == SelectSeq([i \in 1 .. Len(frame) |-> i],
                        LAMBDA i : \A k \in 1 .. n : recommended.index[k] # i)
  IN  [k \in 1 .. n |-> frame[recommended.index[k]]]
        \o [k \in 1 .. Len(rest) |-> frame[rest[k]]]

\* The catalog frame after recommend_movie: the result is a .copy(), and the
\* score column is added to the copy.
df_after_recommend(frame, recommended) == frame

\* ------------------------------------------------------------- presentation
\* f"{x:.2f}%": x rounded to hundredths, half to even; the sign is the sign
\* of x.  The percentage x is the integer m standing for m / SimScale.
format_percentage(m) ==
  LET num == Abs(m) * 100
      q   == num \div SimScale
      r   == num % SimScale
      h   == IF 2 * r > SimScale \/ (2 * r = SimScale /\ q % 2 = 1) THEN q + 1 ELSE q
      frac == h % 100
  IN  (IF m < 0 THEN "-" ELSE "") \o ToString(h \div 100) \o "."
        \o (IF frac < 10 THEN "0" ELSE "") \o ToString(frac) \o "%"

\* table.add_row(...) for one row of the frame
table_row(row) ==
  << "[bold]" \o row.title \o "[/bold]", row.description, row.listed_in,
     ToString(row.release_year), format_percentage(row.match_percentage) >>

\* A display that adds the rows last to first.
display_reversed(recommendations) ==
  [columns |-> << "Name", "Description", "Listed in", "Release Year", "Match" >>,
   rows    |-> [k \in 1 .. Len(recommendations.rows) |->
                  table_row(recommendations.rows[Len(recommendations.rows) + 1 - k])]]

\* display_recommendations(recommendations): one table row per frame row, in
\* iterrows order.
display_recommendations(recommendations) ==
  [columns |-> << "Name", "Description", "Listed in", "Release Year", "Match" >>,
   rows    |-> [k \in 1 .. Len(recommendations.rows) |->
                  table_row(recommendations.rows[k])]]

\* -------------------------------------------------------------------- state
\* numpy's sorts are deterministic, but which of two equal values comes first
\* is not specified: tieOrder[q] is any order of the catalog indices, chosen
\* once per query and used by every call with that query.
VARIABLES
  csv,              \* netflix_titles.csv as it is on disk
  tieOrder,         \* per query, the order numpy's sorts give equal scores
  pc,               \* where the import of util / main stands
  df,               \* util.df
  globals,          \* the names util has bound so far
  desc_embeddings,  \* util.desc_embeddings
  builds,           \* how often desc_embeddings was computed
  requests,         \* the GET /getRecommendations requests
  lastCall          \* the latest direct call of recommend_movie

vars == << csv, tieOrder, pc, df, globals, desc_embeddings, builds, requests, lastCall >>

Unset == << >>

NoRequest == [state |-> "none", query |-> "", recommendations |-> Unset, response |-> Unset]

NoCall == [called |-> FALSE, query |-> "", top_n |-> 0, result |-> Unset]

\* The catalog a correct import builds from the file.
CatalogOf(file) == dropna(read_csv(file))

Init ==
  /\ csv \in CsvFiles
  /\ tieOrder \in [Queries -> Permutations(1 .. Len(CatalogOf(csv)))]
  /\ pc = "load_dataset"
  /\ df = Unset
  /\ globals = {}
  /\ desc_embeddings = Unset
  /\ builds = 0
  /\ requests = [r \in 1 .. MaxRequests |-> NoRequest]
  /\ lastCall = NoCall

\* ------------------------------------------------------------------ startup
\* An exception swallowed: the import goes on to its next statement.
pc_on_exception_ignored(at) ==
  CASE at = "load_dataset" -> "load_model"
    [] at = "load_model" -> "encode_catalog"
    [] at = "encode_catalog" -> "create_app"
    [] OTHER -> at

\* An exception at module level ends the import of util, and with it main.
pc_on_exception(at) == "aborted"

\* util.py 16-17
LoadDataset ==
  /\ pc = "load_dataset"
  /\ df' = dropna(read_csv(csv))
  /\ globals' = globals \cup {"df"}
  /\ pc' = "load_model"
  /\ UNCHANGED << csv, tieOrder, desc_embeddings, builds, requests, lastCall >>

\* util.py 20
LoadModel ==
  /\ pc = "load_model"
  /\ globals' = globals \cup {"model"}
  /\ pc' = "encode_catalog"
  /\ UNCHANGED << csv, tieOrder, df, desc_embeddings, builds, requests, lastCall >>

\* util.py 23-24
EncodeCatalog ==
  /\ pc = "encode_catalog"
  /\ desc_embeddings' = encode_all(descriptions_of(df))
  /\ globals' = globals \cup {"desc_embeddings"}
  /\ builds' = builds + 1
  /\ pc' = "create_app"
  /\ UNCHANGED << csv, tieOrder, df, requests, lastCall >>

\* read_csv, SentenceTransformer(...) or model.encode raises
StartupFailure ==
  /\ pc \in {"load_dataset", "load_model", "encode_catalog"}
  /\ pc' = pc_on_exception(pc)
  /\ UNCHANGED << csv, tieOrder, df, globals, desc_embeddings, builds, requests, lastCall >>

\* main.py 11-13
CreateApp ==
  /\ pc = "create_app"
  /\ pc' = "serving"
  /\ UNCHANGED << csv, tieOrder, df, globals, desc_embeddings, builds, requests, lastCall >>

\* ----------------------------------------------------------------- requests
\* What the framework answers: the table, or a server error when the handler
\* raised.
response_of(recommendations) ==
  IF recommendations.error # "" THEN [status |-> 500, body |-> Unset]
  ELSE [status |-> 200, body |-> display_recommendations(recommendations)]

\* A request arrives and waits for the event loop.  Requests are numbered in
\* their order of arrival.
ReceiveRequest(r, q) ==
  /\ pc = "serving"
  /\ requests[r].state = "none"
  /\ IF r = 1 THEN TRUE ELSE requests[r - 1].state # "none"
  /\ requests' = [requests EXCEPT ![r] = [NoRequest EXCEPT !.state = "pending", !.query = q]]
  /\ UNCHANGED << csv, tieOrder, pc, df, globals, desc_embeddings, builds, lastCall >>

\* get_recommendations(movie_description): the handler has no await, so it
\* runs from start to end without another request in between.
GetRecommendations(r) ==
  /\ pc = "serving"
  /\ requests[r].state = "pending"
  /\ LET q == requests[r].query
         recommendations == recommend_movie(q, desc_embeddings, df, HandlerTopN, tieOrder[q])
     IN  /\ requests' = [requests EXCEPT ![r] =
               [state |-> "done", query |-> q, recommendations |-> recommendations,
                response |-> response_of(recommendations)]]
         /\ df' = df_after_recommend(df, recommendations)
  /\ UNCHANGED << csv, tieOrder, pc, globals, desc_embeddings, builds, lastCall >>

\* recommend_movie called directly, with any top_n
CallRecommendMovie(q, n) ==
  /\ pc = "serving"
  /\ LET result == recommend_movie(q, desc_embeddings, df, n, tieOrder[q])
     IN  /\ lastCall' = [called |-> TRUE, query |-> q, top_n |-> n, result |-> result]
         /\ df' = df_after_recommend(df, result)
  /\ UNCHANGED << csv, tieOrder, pc, globals, desc_embeddings, builds, requests >>

\* The service: the import, then requests.
Next ==
  \/ LoadDataset
  \/ LoadModel
  \/ EncodeCatalog
  \/ StartupFailure
  \/ CreateApp
  \/ \E r \in 1 .. MaxRequests, q \in Queries : ReceiveRequest(r, q)
  \/ \E r \in 1 .. MaxRequests : GetRecommendations(r)

Spec == Init /\ [][Next]_vars

\* The ranker on its own: the import, then calls of recommend_movie with any
\* query and any top_n.
NextRank ==
  \/ LoadDataset
  \/ LoadModel
  \/ EncodeCatalog
  \/ StartupFailure
  \/ CreateApp
  \/ \E q \in Queries, n \in 1 .. MaxTopN : CallRecommendMovie(q, n)

SpecRank == Init /\ [][NextRank]_vars

\* =================================================================== claims
\* The latest direct call returned a frame.
CallOk == lastCall.called /\ lastCall.result.error = ""

\* The similarity of catalog entry i to query q.
Score(q, i) == cos_sim_pair(encode(q), desc_embeddings[i])

\* The catalog indices the latest call returned.
Selected == { lastCall.result.index[k] : k \in 1 .. Len(lastCall.result.index) }

\* The position of catalog index i in the latest call's result.
PosIn(i) == CHOOSE k \in 1 .. Len(lastCall.result.index) : lastCall.result.index[k] = i

\* C1: for every query and every positive top_n, recommend_movie returns
\* exactly min(top_n, catalog size) rows; with top_n above the catalog size it
\* returns the whole catalog and does not fail.
C1_RankLength ==
  lastCall.called =>
    /\ lastCall.result.error = ""
    /\ Len(lastCall.result.rows) = Min(lastCall.top_n, Len(df))

\* C2: the rows recommend_movie returns are in non-increasing order of
\* match_percentage.
C2_SortedDescending ==
  CallOk =>
    \A k \in 1 .. Len(lastCall.result.rows) - 1 :
      lastCall.result.rows[k].match_percentage
        >= lastCall.result.rows[k + 1].match_percentage

\* C2 witness: a result of two rows or more whose order differs from the
\* catalog's, with a strictly larger score first.
C2_Witness ==
  /\ CallOk
  /\ \E k \in 1 .. Len(lastCall.result.rows) - 1 :
       /\ lastCall.result.rows[k].match_percentage
            > lastCall.result.rows[k + 1].match_percentage
       /\ lastCall.result.index[k] > lastCall.result.index[k + 1]

\* C3: the rows returned are top_n distinct catalog entries, each row the
\* entry at its index, and no entry left out scores strictly higher than
\* an entry returned.
C3_TopNSelected ==
  CallOk =>
    /\ Len(lastCall.result.index) = lastCall.top_n
    /\ Len(lastCall.result.rows) = lastCall.top_n
    /\ Selected \subseteq 1 .. Len(df)
    /\ Cardinality(Selected) = lastCall.top_n
    /\ \A k \in 1 .. lastCall.top_n :
         /\ lastCall.result.rows[k].title = df[lastCall.result.index[k]].title
         /\ lastCall.result.rows[k].description = df[lastCall.result.index[k]].description
    /\ \A j \in (1 .. Len(df)) \ Selected : \A i \in Selected :
         Score(lastCall.query, j) <= Score(lastCall.query, i)

\* C3 witness: an entry is left out that stands earlier in the catalog than
\* a returned one and scores strictly lower.
C3_Witness ==
  /\ CallOk
  /\ lastCall.top_n < Len(df)
  /\ \E j \in (1 .. Len(df)) \ Selected : \E i \in Selected :
       j < i /\ Score(lastCall.query, j) < Score(lastCall.query, i)

\* C7: each row's match_percentage is 100 times the cosine similarity of the
\* query and that row's own description, unclamped, within [-100, 100].
C7_MatchPercentage ==
  CallOk =>
    \A k \in 1 .. Len(lastCall.result.rows) :
      LET row == lastCall.result.rows[k]
      IN  /\ row.match_percentage
               = 100 * cos_sim_pair(encode(lastCall.query), encode(row.description))
          /\ row.match_percentage >= -100 * SimScale
          /\ row.match_percentage <= 100 * SimScale

\* C7 witness: a returned row with a negative percentage, below a row with a
\* positive one.
C7_Witness ==
  /\ CallOk
  /\ \E k, l \in 1 .. Len(lastCall.result.rows) :
       /\ lastCall.result.rows[k].match_percentage < 0
       /\ lastCall.result.rows[l].match_percentage > 0

Done == { r \in 1 .. MaxRequests : requests[r].state = "done" }

\* The names the import of util binds.
UtilNames == {"df", "model", "desc_embeddings"}

\* C4: after startup the catalog is never changed: no step of a request adds,
\* removes or alters a row of df or an embedding, and the score column goes
\* to the result only.
C4_CatalogUnchanged ==
  [][pc = "serving" =>
       /\ df' = df
       /\ desc_embeddings' = desc_embeddings
       /\ globals' = globals
       /\ csv' = csv]_vars

\* C4 witness: a request was answered with scored rows, and no row of df has
\* a match_percentage column.
C4_Witness ==
  /\ \E r \in Done :
       /\ requests[r].response.status = 200
       /\ \A k \in 1 .. Len(requests[r].recommendations.rows) :
            "match_percentage" \in DOMAIN requests[r].recommendations.rows[k]
  /\ Len(df) > 0
  /\ \A i \in 1 .. Len(df) : "match_percentage" \notin DOMAIN df[i]

\* What one call of the ranker and the presentation, alone, on the catalog
\* built from the file, answers to query q.
IsolatedResponse(q) ==
  LET catalog == CatalogOf(csv)
  IN  response_of(recommend_movie(q, encode_all(descriptions_of(catalog)), catalog,
                                  HandlerTopN, tieOrder[q]))

\* C5: whatever requests came before and in whatever order the pending ones
\* were handled, a request is answered as an isolated call with its query
\* would be; two requests with the same query get the same answer.
C5_RequestsIndependent ==
  /\ \A r \in Done : requests[r].response = IsolatedResponse(requests[r].query)
  /\ \A r1, r2 \in Done :
       requests[r1].query = requests[r2].query =>
         requests[r1].response = requests[r2].response

\* C5 witness: every request was answered with a table, two of them with
\* different queries.
C5_Witness ==
  /\ Done = 1 .. MaxRequests
  /\ \A r \in Done : requests[r].response.status = 200
  /\ \E r1, r2 \in Done : requests[r1].query # requests[r2].query

\* C6: the response holds one table row per row the ranker returned, in the
\* ranker's order, each the formatted row at the same position; and the
\* ranker was asked for 3 rows.
C6_PresentationFaithful ==
  \A r \in Done :
    LET recs == requests[r].recommendations
        resp == requests[r].response
    IN  /\ recs.error = "" =>
             /\ resp.status = 200
             /\ Len(recs.rows) = 3
             /\ Len(resp.body.rows) = Len(recs.rows)
             /\ \A k \in 1 .. Len(recs.rows) :
                  /\ resp.body.rows[k][1] = "[bold]" \o recs.rows[k].title \o "[/bold]"
                  /\ resp.body.rows[k][2] = recs.rows[k].description
                  /\ resp.body.rows[k][3] = recs.rows[k].listed_in
                  /\ resp.body.rows[k][4] = ToString(recs.rows[k].release_year)
                  /\ resp.body.rows[k][5] = format_percentage(recs.rows[k].match_percentage)
        /\ recs.error # "" => (resp.status = 500 /\ Len(df) < 3)

\* C6 witness: a response of three rows whose titles are not in catalog
\* order.
C6_Witness ==
  \E r \in Done :
    /\ requests[r].response.status = 200
    /\ Len(requests[r].response.body.rows) = 3
    /\ requests[r].recommendations.index[1] > requests[r].recommendations.index[2]

\* C8: a request is answered only by a process whose import ran to its end:
\* every name bound, the embeddings computed once and one per catalog row.
\* An aborted import answers nothing.
C8_NoPartialIndexServed ==
  /\ builds <= 1
  /\ Done # {} =>
       /\ pc = "serving"
       /\ globals = UtilNames
       /\ builds = 1
       /\ Len(desc_embeddings) = Len(df)
  /\ pc = "aborted" => \A r \in 1 .. MaxRequests : requests[r].state = "none"

\* C8 witness: a request answered from a catalog that is not empty.
C8_Witness ==
  /\ Done # {}
  /\ Len(df) > 0
  /\ builds = 1

\* The positions of the file's rows that have a description.
Present == { j \in 1 .. Len(csv) : csv[j].description # "" }

\* C9: once built, df holds exactly the file's rows that have a description,
\* in their order in the file, and desc_embeddings[i] is the embedding of
\* the description of df[i].
C9_IndexAligned ==
  pc \in {"create_app", "serving"} =>
    /\ Len(df) = Cardinality(Present)
    /\ \E f \in [1 .. Len(df) -> 1 .. Len(csv)] :
         /\ \A i, j \in 1 .. Len(df) : i < j => f[i] < f[j]
         /\ { f[i] : i \in 1 .. Len(df) } = Present
         /\ \A i \in 1 .. Len(df) : df[i] = csv[f[i]]
    /\ Len(desc_embeddings) = Len(df)
    /\ \A i \in 1 .. Len(df) : desc_embeddings[i] = encode(df[i].description)

\* C9 witness: the file has a row without description before rows with one,
\* so that positions in df differ from positions in the file.
C9_Witness ==
  /\ pc = "serving"
  /\ Len(df) >= 2
  /\ \E j \in 1 .. Len(csv) : j < Len(csv) /\ csv[j].description = "" /\ j \notin Present
  /\ df[Len(df)] = csv[Len(csv)]
  /\ Len(df) < Len(csv)

====
